---- MODULE Spec2Model ----
\* Verification model of eka-sdk-go: the credential store
\* (auth.ClientCredentialsProvider / auth.StaticCredentialsProvider), the
\* authentication exchanges (auth.Service), the HTTP transport
\* (internal/http Client.Do) and the ekasdk Client that ties them together.
\*
\* Time is counted in seconds.  Every goroutine (caller) runs one operation
\* at a time; an operation that blocks (mutex, network exchange) is split at
\* its blocking points, everything between two blocking points is one step.
EXTENDS Integers, Sequences, FiniteSets, TLC

\* ------------------------------------------------------------------ bounds
NumCallers == 2        \* goroutines sharing the client
MaxCalls == 3          \* operations started in one run
MaxTicks == 3          \* clock advances in one run
MaxProviders == 1      \* ClientCredentialsProvider instances created in one run
MaxMinutes == 12       \* range of the clock and of ExpiresAt, in minutes
MaxMiddleware == 2     \* middleware registered on one client
MaxRetries == 2        \* largest maxRetries passed to a retry
MaxOptions == 3        \* options passed to one constructor call

\* --------------------------------------------------------------- constants
SafetyMargin == 300    \* the 5 minute buffer of Credentials.Expired
Minute == 60           \* time.Minute, in seconds
TickStep == SafetyMargin

Callers == 1..NumCallers
Providers == 1..MaxProviders
NilProvider == 0
NoCaller == 0
EmptyToken == 0        \* the empty string "" of a token field

VARIABLES
    now,                 \* time.Now()
    prov,                \* ClientCredentialsProvider objects: cache and mu
    stats,               \* per provider: counters of the fake Auth Exchange
    nProv,               \* provider objects allocated so far
    issued,              \* tokens minted by the remote server so far
    credentialsProvider, \* ekasdk.Client.credentialsProvider
    cfg,                 \* config.Config of the ekasdk Client
    abdmKey,             \* apiKey held by the http clients of Client.ABDM
    authKey,             \* apiKey held by the http client of Client.Auth
    staticProvider,      \* a StaticCredentialsProvider
    call,                \* per goroutine: the operation in progress
    calls,               \* operations started so far
    probe,               \* one evaluation of Credentials.Expired
    rw,                  \* one call of utils.Service.RetryWithBackoff
    tr,                  \* one http client, its middleware and its Do call
    build,               \* one constructor call: New(opts...)
    acc,                 \* goroutines inside operations of one shared Client
    fc,                  \* one call of a profile facade
    cc                   \* one CredentialsCache shared by the goroutines

\* The ekasdk client and its credential store.
clientVars == <<now, prov, stats, nProv, issued, credentialsProvider, cfg,
                abdmKey, authKey, staticProvider, call, calls>>

\* The constructor, the shared Client's fields, the profile facades and the
\* CredentialsCache, each on its own.
extraVars == <<build, acc, fc, cc>>

\* The state of the utilities and of the transport on their own.
auxVars == <<probe, rw, tr, extraVars>>

vars == <<clientVars, auxVars>>

\* ------------------------------------------------------------- Credentials
NilCreds ==
    [AccessToken |-> EmptyToken, RefreshToken |-> EmptyToken, ExpiresAt |-> 0,
     RefreshExpiresAt |-> 0, Source |-> "nil"]

\* Variant: the instant ExpiresAt - 5 minutes itself counts as expired.
ExpiredAtBoundary(c, t) == t >= c.ExpiresAt - SafetyMargin

\* time.Now().After(c.ExpiresAt.Add(-5 * time.Minute))
Expired(c, t) == t > c.ExpiresAt - SafetyMargin

\* c.RefreshToken != "" && time.Now().Before(c.RefreshExpiresAt)
\* Variant: the expiry of the refresh token is not looked at.
CanRefreshIgnoresExpiry(c, t) == c.RefreshToken # EmptyToken

CanRefresh(c, t) == c.RefreshToken # EmptyToken /\ t < c.RefreshExpiresAt

\* ------------------------------------------------------------------ errors
\* An error value is its Unwrap chain, outermost layer first; nil is <<>>.
\* A layer keeps the dynamic type, the Code field (APIError only), the
\* format of its own text and the %d / %s arguments printed into it.
NoErr == <<>>

ErrLayer(type, code, fmt, d, s) ==
    [type |-> type, Code |-> code, fmt |-> fmt, d |-> d, s |-> s]

\* fmt.Errorf(prefix + ": %w", err)
Errorf(prefix, e) == <<ErrLayer("*fmt.wrapError", 0, prefix, 0, "")>> \o e

\* fmt.Errorf(text) / errors of the net/http package
ErrorString(type, text) == <<ErrLayer(type, 0, text, 0, "")>>

\* errors.IsRetryableError: err.(*APIError) is a type assertion on the
\* error value itself, for the APIError of the errors package; then 5xx
\* and 429 are retryable.
IsRetryableError(e) ==
    /\ e # NoErr
    /\ e[1].type = "*errors.APIError"
    /\ (e[1].Code >= 500 \/ e[1].Code = 429)

\* utils Service.IsRetryableError: return err != nil
ServiceIsRetryableError(e) == e # NoErr

\* --------------------------------------------------- remote server outcomes
\* What the network and the remote API answer to one HTTP exchange.
\*   net   : "ok" or "fail" (connection, timeout, DNS, cancelled context)
\*   status: HTTP status code
\*   body  : "json" (decodes into the expected struct), "empty",
\*           "envelope" (the error envelope), "raw" (not JSON)
Outcome(net, status, body, ecode, etext, expiresIn, hasRefresh, refreshExpiresIn) ==
    [net |-> net, status |-> status, body |-> body, ecode |-> ecode,
     etext |-> etext, ExpiresIn |-> expiresIn, hasRefresh |-> hasRefresh,
     RefreshExpiresIn |-> refreshExpiresIn]

NetFailure == Outcome("fail", 0, "raw", 0, "", 0, FALSE, 0)

\* A ten minute token with a fifteen minute refresh token, and a two minute
\* token without refresh token.
TokenOutcomes ==
    { Outcome("ok", 200, "json", 0, "", 600, TRUE, 900),
      Outcome("ok", 200, "json", 0, "", 120, FALSE, 0) }

\* HTTP 401 with the error envelope {"code":401,"error":"invalid client credentials"}
RejectOutcomes ==
    { Outcome("ok", 401, "envelope", 401, "invalid client credentials", 0, FALSE, 0) }

AuthOutcomes == TokenOutcomes \cup RejectOutcomes \cup {NetFailure}

\* ------------------------------------------------------- internal/http Do
\* json.Unmarshal(respBody, &errorResp) fails on a body that is not JSON
\* and on an empty body; any JSON object decodes, the envelope or not.
UnmarshalFails(body) == body \in {"raw", "empty"}

\* ErrorResponse.String() of the decoded body: the fields of the envelope,
\* or the zero values when the JSON object is no envelope.
EnvelopeCode(o) == IF o.body = "envelope" THEN o.ecode ELSE 0

EnvelopeText(o) == IF o.body = "envelope" THEN o.etext ELSE ""

\* Variant: the error envelope is never decoded.
DoIgnoresEnvelope(apiKey, o) ==
    IF o.net # "ok"
    THEN [ok |-> FALSE, authHeader |-> TRUE, bearer |-> apiKey,
          StatusCode |-> 0, Body |-> "none",
          err |-> Errorf("request failed", ErrorString("*url.Error", "round trip"))]
    ELSE IF o.status >= 400
    THEN [ok |-> FALSE, authHeader |-> TRUE, bearer |-> apiKey,
          StatusCode |-> 0, Body |-> "none",
          err |-> <<ErrLayer("*errors.errorString", 0, "HTTP %d: %s", o.status, o.body)>>]
    ELSE [ok |-> TRUE, authHeader |-> TRUE, bearer |-> apiKey,
          StatusCode |-> o.status, Body |-> o.body, err |-> NoErr]

\* Client.Do: the request goes out with "Authorization: Bearer " + apiKey;
\* a failed round trip is wrapped, a status >= 400 becomes an *APIError when
\* the body decodes into ErrorResponse and a plain formatted error with the
\* status and the body text otherwise.
Do(apiKey, o) ==
    IF o.net # "ok"
    THEN [ok |-> FALSE, authHeader |-> TRUE, bearer |-> apiKey,
          StatusCode |-> 0, Body |-> "none",
          err |-> Errorf("request failed", ErrorString("*url.Error", "round trip"))]
    ELSE IF o.status >= 400
    THEN IF UnmarshalFails(o.body)
         THEN [ok |-> FALSE, authHeader |-> TRUE, bearer |-> apiKey,
               StatusCode |-> 0, Body |-> "none",
               err |-> <<ErrLayer("*errors.errorString", 0, "HTTP %d: %s", o.status, o.body)>>]
         ELSE [ok |-> FALSE, authHeader |-> TRUE, bearer |-> apiKey,
               StatusCode |-> 0, Body |-> "none",
               err |-> <<ErrLayer("*http.APIError", o.status, "Error %d: %s",
                                  EnvelopeCode(o), EnvelopeText(o))>>]
    ELSE [ok |-> TRUE, authHeader |-> TRUE, bearer |-> apiKey,
          StatusCode |-> o.status, Body |-> o.body, err |-> NoErr]

\* Client.UnmarshalResponse: an empty body leaves the struct zero-valued.
\* tok is the token the server minted for this response.
UnmarshalResponse(o, tok) ==
    IF o.body = "empty"
    THEN [AccessToken |-> EmptyToken, RefreshToken |-> EmptyToken,
          ExpiresIn |-> 0, RefreshExpiresIn |-> 0]
    ELSE [AccessToken |-> tok,
          RefreshToken |-> IF o.hasRefresh THEN tok ELSE EmptyToken,
          ExpiresIn |-> o.ExpiresIn, RefreshExpiresIn |-> o.RefreshExpiresIn]

\* auth.Service.ClientLogin
ClientLogin(apiKey, o, tok) ==
    LET r == Do(apiKey, o) IN
    IF r.err # NoErr
    THEN [err |-> Errorf("client login request failed", r.err),
          resp |-> UnmarshalResponse(NetFailure, EmptyToken), bearer |-> r.bearer]
    ELSE [err |-> NoErr, resp |-> UnmarshalResponse(o, tok), bearer |-> r.bearer]

\* auth.Service.RefreshToken
RefreshToken(apiKey, o, tok) ==
    LET r == Do(apiKey, o) IN
    IF r.err # NoErr
    THEN [err |-> Errorf("token refresh request failed", r.err),
          resp |-> UnmarshalResponse(NetFailure, EmptyToken), bearer |-> r.bearer]
    ELSE [err |-> NoErr, resp |-> UnmarshalResponse(o, tok), bearer |-> r.bearer]

\* The Credentials literal built from a token response at time t.
NewCredentials(resp, t, source) ==
    [AccessToken |-> resp.AccessToken, RefreshToken |-> resp.RefreshToken,
     ExpiresAt |-> t + resp.ExpiresIn,
     RefreshExpiresAt |-> t + resp.RefreshExpiresIn, Source |-> source]

\* ------------------------------------------------------------------- state
\* One goroutine's operation in progress.
\*   pc     : where the goroutine stands
\*   op     : the public operation it runs
\*   tgt    : the provider object its Retrieve works on
\*   ctx    : "live", "cancelledInFlight" (cancelled during the running
\*            exchange) or "cancelled" (cancelled before the exchange began)
\*   result, err : what the operation returned
\*   via    : the return path of Retrieve
\*   nLogin, nRefresh : exchanges this call has started
\*   snap   : the provider's cache when this call took the exclusive lock
\*            (while the call holds it)
\*   sent   : bearer token carried by the facade request of this call
\*   sawEmpty : the fast path of this call found the cache empty
\*   ans    : the answer to the last exchange of this call
NoAnswer == Outcome("none", 0, "raw", 0, "", 0, FALSE, 0)

IdleCall ==
    [pc |-> "idle", op |-> "none", tgt |-> NilProvider, ctx |-> "live",
     result |-> NilCreds, err |-> NoErr, via |-> "none", nLogin |-> 0,
     nRefresh |-> 0, snap |-> NilCreds, sent |-> EmptyToken,
     sawEmpty |-> FALSE, ans |-> NoAnswer]

\* NewClientCredentialsProvider: empty cache, unlocked mutex
NewClientCredentialsProvider ==
    [cache |-> NilCreds, readers |-> {}, writer |-> NoCaller]

NoStats ==
    [loginCalls |-> 0, refreshCalls |-> 0, failedLogin |-> FALSE,
     sawExpired |-> FALSE]

\* NewStaticCredentialsProvider(accessToken, refreshToken, expiresIn, refreshExpiresIn)
NewStaticCredentialsProvider(accessToken, refreshToken, expiresIn, refreshExpiresIn, t) ==
    [credentials |->
        [AccessToken |-> accessToken, RefreshToken |-> refreshToken,
         ExpiresAt |-> t + expiresIn, RefreshExpiresAt |-> t + refreshExpiresIn,
         Source |-> "StaticCredentialsProvider"]]

StaticToken == MaxCalls + 1      \* the externally supplied access token; no exchange mints it

\* config.Config.GetAPIKey: the JWT authorization token
GetAPIKey(c) == c.AuthorizationToken

\* http.NewClientFromInterface: the apiKey is copied out of the config when
\* the http client is built.
NewClientFromInterface(c) == GetAPIKey(c)

\* createABDMClient / abdm.NewClient: every facade builds its http client
\* from the same config at this moment.
createABDMClient(c) == NewClientFromInterface(c)

\* ------------------------------------------------ utilities and transport
\* An error of the retry utility: nil, the error of the k-th invocation of
\* the operation, or ctx.Err().
NilError == [kind |-> "nil", id |-> 0]

\* No evaluation of Expired asked for.
NoProbe == [pc |-> "idle", now |-> 0, ExpiresAt |-> 0, expired |-> FALSE]

\* No RetryWithBackoff call under way.
\*   attempt : the loop variable; invoked : invocations of fn so far
\*   lastErr : the error lastErr holds; succeeded : the invocation that
\*             returned nil (0: none)
\*   delay   : the current delay; ctx : the context
\*   woken   : the case that woke the select ("none": still blocked)
\*   cancelledAt : where the call stood when the context was cancelled
\*   invokedAtCancel : invocations made when the context was cancelled
IdleRetry ==
    [pc |-> "idle", maxRetries |-> 0, attempt |-> 0, invoked |-> 0,
     lastErr |-> NilError, succeeded |-> 0, delay |-> 0, ctx |-> "live",
     woken |-> "none", cancelledAt |-> "none", invokedAtCancel |-> 0,
     err |-> NilError]

\* An http client without middleware and without a request under way.
\*   httpMw  : Client.middleware of the internal http client
\*   sdkMw   : Client.middleware of the abdm client that owns the facades
\*   via     : who called Do ("http": a direct caller, "facade": a facade)
\*   applied : the middleware wrapped around the transport for this
\*             request, outermost first
\*   attempt, lastErr : the loop state of retryTransport.RoundTrip
\*   sends   : times the request was handed to the underlying round tripper
\*   last    : the latest answer of the underlying round tripper
\*   got     : what client.Do(httpReq) came back with
\*   resp, err : what Client.Do returned
IdleTransport ==
    [pc |-> "idle", httpMw |-> <<>>, sdkMw |-> <<>>, method |-> "none",
     via |-> "none", applied |-> <<>>, maxRetries |-> 0, attempt |-> 0,
     lastErr |-> FALSE, sends |-> 0, last |-> NoAnswer, got |-> NoAnswer,
     resp |-> [StatusCode |-> 0, Body |-> "none"], err |-> NoErr]

\* The configuration fields followed through a constructor, and their
\* zero values.
Fields == {"MaxRetries", "Timeout", "UserAgent"}

ZeroConfig == [MaxRetries |-> 0, Timeout |-> 0, UserAgent |-> ""]

\* No constructor call under way.
\*   ctor : "ekasdk" (ekasdk.New) or "abdm" (abdm.New)
\*   n    : options applied so far
\*   cfg  : the options / config struct the options write to
\*   last : per field, the value of the last option that set it (<<>>: none)
IdleBuild ==
    [pc |-> "idle", ctor |-> "none", n |-> 0, cfg |-> ZeroConfig,
     last |-> [f \in Fields |-> <<>>]]

\* No goroutine inside an operation of the ekasdk Client.
\*   at : per goroutine, the operation it runs and the step it is about to take
\*   by : per field of the Client, the goroutine that wrote it last
\*        (NoCaller: the value New gave it)
ClientFields == {"credentialsProvider", "AuthorizationToken", "ABDM"}

IdleRace ==
    [at |-> [c \in Callers |-> [op |-> "none", pc |-> 0]],
     by |-> [f \in ClientFields |-> NoCaller]]

\* No profile facade call under way.
\*   op     : the facade operation
\*   req    : the request pointer ("nil", or a request with or without OID)
\*   Params : the query parameters put on the HTTP request
\*   got    : the answer to the HTTP request
\*   err    : the error returned
IdleFacade ==
    [pc |-> "idle", op |-> "none", req |-> "nil", Params |-> "none",
     got |-> NoAnswer, err |-> NoErr]

\* NewCredentialsCache(provider): an empty cache, nobody inside Retrieve.
\*   cache   : CredentialsCache.cache
\*   readers, writer : the holders of CredentialsCache.mu
\*   n       : calls of the wrapped provider made so far
\*   at      : per goroutine, where its Retrieve stands, what it returned
\*             and the cache it found when it took the exclusive lock
NewCredentialsCache ==
    [cache |-> NilCreds, readers |-> {}, writer |-> NoCaller, n |-> 0,
     at |-> [c \in Callers |->
               [pc |-> "idle", result |-> NilCreds, err |-> NilError,
                snap |-> NilCreds]]]

\* The variables of the later sections at rest.
ExtraIdle ==
    /\ build = IdleBuild
    /\ acc = IdleRace
    /\ fc = IdleFacade
    /\ cc = NewCredentialsCache

\* ekasdk.New(WithClientID(id), WithClientSecret(secret)), with or without
\* WithCredentialsProvider(provider), followed by the construction of a
\* static provider.
Init ==
    /\ now = 0
    /\ prov = [p \in Providers |-> NewClientCredentialsProvider]
    /\ stats = [p \in Providers |-> NoStats]
    /\ issued = 0
    /\ \E given \in BOOLEAN :
          /\ nProv = IF given THEN 1 ELSE 0
          /\ credentialsProvider = IF given THEN 1 ELSE NilProvider
    /\ \E id \in {"", "client-id"}, secret \in {"", "client-secret"} :
          cfg = [ClientID |-> id, ClientSecret |-> secret,
                 AuthorizationToken |-> EmptyToken]
    /\ abdmKey = EmptyToken
    /\ authKey = EmptyToken
    /\ staticProvider = NewStaticCredentialsProvider(StaticToken, StaticToken, 600, 900, 0)
    /\ call = [c \in Callers |-> IdleCall]
    /\ calls = 0
    /\ probe = NoProbe
    /\ rw = IdleRetry
    /\ tr = IdleTransport
    /\ ExtraIdle

\* ------------------------------------------------------------------- clock
Tick ==
    /\ now < MaxTicks * TickStep
    /\ now' = now + TickStep
    /\ UNCHANGED <<prov, stats, nProv, issued, credentialsProvider, cfg,
                   abdmKey, authKey, staticProvider, call, calls>>
    /\ UNCHANGED auxVars

\* --------------------------------------------------------- sync.RWMutex mu
CanRLock(p) == prov[p].writer = NoCaller

\* Variant: the exclusive lock does not wait for the writer that holds it.
CanLockIgnoresWriter(p) == prov[p].readers = {}

CanLock(p) == prov[p].writer = NoCaller /\ prov[p].readers = {}

\* Variant: the exclusive lock is not released.
UnlockForgotten(pr) == pr

\* The deferred p.mu.Unlock()
Unlock(pr) == [pr EXCEPT !.writer = NoCaller]

\* Variant: the fast path test is inverted.
FastHitInverted(p) == prov[p].cache # NilCreds /\ Expired(prov[p].cache, now)

\* p.cache != nil && !p.cache.Expired() under the read lock
FastHit(p) == prov[p].cache # NilCreds /\ ~Expired(prov[p].cache, now)

\* Variant: no second look at the cache once the exclusive lock is held.
RecheckSkipped(p) == FALSE

\* p.cache != nil && !p.cache.Expired() under the exclusive lock
RecheckHit(p) == prov[p].cache # NilCreds /\ ~Expired(prov[p].cache, now)

\* The goroutine may start a new operation.
Free(c) == call[c].pc \in {"idle", "done"} /\ calls < MaxCalls

\* Where a returning Retrieve hands control: back into Client.Login, or to
\* the caller of GetCredentials.
AfterRetrieve(c) == IF call[c].op = "Login" THEN "loginfin" ELSE "done"

\* ---------------------------------------- ClientCredentialsProvider.Retrieve
\* p.mu.RLock()
RLock(c) ==
    LET p == call[c].tgt IN
    /\ call[c].pc = "rlock"
    /\ CanRLock(p)
    /\ prov' = [prov EXCEPT ![p].readers = @ \cup {c}]
    /\ call' = [call EXCEPT ![c].pc = "rcheck"]
    /\ UNCHANGED <<now, stats, nProv, issued, credentialsProvider, cfg,
                   abdmKey, authKey, staticProvider, calls>>
    /\ UNCHANGED auxVars

\* The read-locked fast path: return the cache when it is usable, then
\* RUnlock either way.
FastCheck(c) ==
    LET p == call[c].tgt IN
    /\ call[c].pc = "rcheck"
    /\ prov' = [prov EXCEPT ![p].readers = @ \ {c}]
    /\ IF FastHit(p)
       THEN call' = [call EXCEPT ![c].pc = AfterRetrieve(c), ![c].snap = NilCreds,
                                 ![c].result = prov[p].cache,
                                 ![c].via = "fast"]
       ELSE call' = [call EXCEPT ![c].pc = "lock",
                                 ![c].sawEmpty = (prov[p].cache = NilCreds)]
    /\ UNCHANGED <<now, stats, nProv, issued, credentialsProvider, cfg,
                   abdmKey, authKey, staticProvider, calls>>
    /\ UNCHANGED auxVars

\* Variant: the slow path runs without taking the exclusive lock.
LockNotTaken(c) ==
    LET p == call[c].tgt IN
    /\ call[c].pc = "lock"
    /\ call' = [call EXCEPT ![c].pc = "dcheck", ![c].snap = prov[p].cache]
    /\ UNCHANGED <<now, prov, stats, nProv, issued, credentialsProvider, cfg,
                   abdmKey, authKey, staticProvider, calls>>
    /\ UNCHANGED auxVars

\* p.mu.Lock(); defer p.mu.Unlock()
Lock(c) ==
    LET p == call[c].tgt IN
    /\ call[c].pc = "lock"
    /\ CanLock(p)
    /\ prov' = [prov EXCEPT ![p].writer = c]
    /\ call' = [call EXCEPT ![c].pc = "dcheck", ![c].snap = prov[p].cache]
    /\ UNCHANGED <<now, stats, nProv, issued, credentialsProvider, cfg,
                   abdmKey, authKey, staticProvider, calls>>
    /\ UNCHANGED auxVars

\* A context that was cancelled before an exchange starts is dead for it.
AtExchangeStart(x) == IF x = "live" THEN "live" ELSE "cancelled"

\* The double check under the exclusive lock, and the choice between the
\* refresh exchange and the login exchange.
DoubleCheck(c) ==
    LET p == call[c].tgt
        cached == prov[p].cache IN
    /\ call[c].pc = "dcheck"
    /\ IF RecheckHit(p)
       THEN /\ prov' = [prov EXCEPT ![p] = Unlock(@)]
            /\ call' = [call EXCEPT ![c].pc = AfterRetrieve(c), ![c].snap = NilCreds,
                                    ![c].result = cached,
                                    ![c].via = "recheck"]
            /\ UNCHANGED stats
       ELSE IF cached # NilCreds /\ CanRefresh(cached, now)
       THEN /\ call' = [call EXCEPT ![c].pc = "refreshing",
                                    ![c].nRefresh = @ + 1,
                                    ![c].ctx = AtExchangeStart(@)]
            /\ stats' = [stats EXCEPT ![p].refreshCalls = @ + 1,
                                      ![p].sawExpired = @ \/ Expired(cached, now)]
            /\ UNCHANGED prov
       ELSE /\ call' = [call EXCEPT ![c].pc = "logging",
                                    ![c].nLogin = @ + 1,
                                    ![c].ctx = AtExchangeStart(@)]
            /\ stats' = [stats EXCEPT ![p].loginCalls = @ + 1,
                                      ![p].sawExpired =
                                          @ \/ (cached # NilCreds /\ Expired(cached, now))]
            /\ UNCHANGED prov
    /\ UNCHANGED <<now, nProv, issued, credentialsProvider, cfg, abdmKey,
                   authKey, staticProvider, calls>>
    /\ UNCHANGED auxVars

\* The answers an exchange can get: none but a failure once the context was
\* cancelled before the request went out.
Answers(c) == IF call[c].ctx = "cancelled" THEN {NetFailure} ELSE AuthOutcomes

\* Variant: a failed refresh exchange is tried a second time before the
\* login exchange.
RefreshFailedRetries(c, o) ==
    LET p == call[c].tgt IN
    IF call[c].nRefresh < 2
    THEN /\ call' = [call EXCEPT ![c].nRefresh = @ + 1, ![c].ans = o]
         /\ stats' = [stats EXCEPT ![p].refreshCalls = @ + 1]
         /\ UNCHANGED <<prov, issued>>
    ELSE /\ call' = [call EXCEPT ![c].pc = "logging",
                                 ![c].nLogin = @ + 1,
                                 ![c].ans = o,
                                 ![c].via = "refreshFailed",
                                 ![c].ctx = AtExchangeStart(@)]
         /\ stats' = [stats EXCEPT ![p].loginCalls = @ + 1]
         /\ UNCHANGED <<prov, issued>>

\* "If refresh fails, fall through to login": the error is dropped and the
\* login exchange starts.
RefreshFailed(c, o) ==
    LET p == call[c].tgt IN
    /\ call' = [call EXCEPT ![c].pc = "logging",
                            ![c].nLogin = @ + 1,
                            ![c].ans = o,
                            ![c].via = "refreshFailed",
                            ![c].ctx = AtExchangeStart(@)]
    /\ stats' = [stats EXCEPT ![p].loginCalls = @ + 1]
    /\ UNCHANGED <<prov, issued>>

\* p.client.RefreshToken returns: store the refreshed credential and return
\* it, or fall through to the login exchange.
RefreshReturn(c) ==
    LET p == call[c].tgt IN
    /\ call[c].pc = "refreshing"
    /\ \E o \in Answers(c) :
         LET r == RefreshToken(authKey, o, issued + 1)
             creds == NewCredentials(r.resp, now, "ClientCredentialsProvider(refresh)") IN
         IF r.err = NoErr
         THEN /\ prov' = [prov EXCEPT ![p] = Unlock([@ EXCEPT !.cache = creds])]
              /\ call' = [call EXCEPT ![c].pc = AfterRetrieve(c), ![c].snap = NilCreds,
                                      ![c].result = creds,
                                      ![c].ans = o,
                                      ![c].via = "refresh"]
              /\ issued' = issued + 1
              /\ UNCHANGED stats
         ELSE RefreshFailed(c, o)
    /\ UNCHANGED <<now, nProv, credentialsProvider, cfg, abdmKey, authKey,
                   staticProvider, calls>>
    /\ UNCHANGED auxVars

\* Variant: a failed login empties the cache.
LoginFailedDropsCache(c, o, e) ==
    LET p == call[c].tgt IN
    /\ prov' = [prov EXCEPT ![p] = Unlock([@ EXCEPT !.cache = NilCreds])]
    /\ call' = [call EXCEPT ![c].pc = AfterRetrieve(c), ![c].snap = NilCreds,
                            ![c].result = NilCreds,
                            ![c].err = e,
                            ![c].ans = o,
                            ![c].via = "loginFailed"]
    /\ stats' = [stats EXCEPT ![p].failedLogin = TRUE]
    /\ UNCHANGED issued

\* if err != nil { return nil, err }: nothing is stored
LoginFailed(c, o, e) ==
    LET p == call[c].tgt IN
    /\ prov' = [prov EXCEPT ![p] = Unlock(@)]
    /\ call' = [call EXCEPT ![c].pc = AfterRetrieve(c), ![c].snap = NilCreds,
                            ![c].result = NilCreds,
                            ![c].err = e,
                            ![c].ans = o,
                            ![c].via = "loginFailed"]
    /\ stats' = [stats EXCEPT ![p].failedLogin = TRUE]
    /\ UNCHANGED issued

\* p.client.ClientLogin returns: store the login credential and return it,
\* or return the error; the deferred Unlock runs on both paths.
LoginReturn(c) ==
    LET p == call[c].tgt IN
    /\ call[c].pc = "logging"
    /\ \E o \in Answers(c) :
         LET r == ClientLogin(authKey, o, issued + 1)
             creds == NewCredentials(r.resp, now, "ClientCredentialsProvider(login)") IN
         IF r.err = NoErr
         THEN /\ prov' = [prov EXCEPT ![p] = Unlock([@ EXCEPT !.cache = creds])]
              /\ call' = [call EXCEPT ![c].pc = AfterRetrieve(c), ![c].snap = NilCreds,
                                      ![c].result = creds,
                                      ![c].ans = o,
                                      ![c].via = IF @ = "refreshFailed"
                                                 THEN "refreshFailedLogin"
                                                 ELSE "login"]
              /\ issued' = issued + 1
              /\ UNCHANGED stats
         ELSE LoginFailed(c, o, r.err)
    /\ UNCHANGED <<now, nProv, credentialsProvider, cfg, abdmKey, authKey,
                   staticProvider, calls>>
    /\ UNCHANGED auxVars

\* The caller cancels the context while an exchange of its call is running.
Cancel(c) ==
    /\ call[c].pc \in {"refreshing", "logging"}
    /\ call[c].ctx = "live"
    /\ call' = [call EXCEPT ![c].ctx = "cancelledInFlight"]
    /\ UNCHANGED <<now, prov, stats, nProv, issued, credentialsProvider, cfg,
                   abdmKey, authKey, staticProvider, calls>>
    /\ UNCHANGED auxVars

\* -------------------------------------------- StaticCredentialsProvider
\* Variant: the static provider refuses to hand out a token past ExpiresAt.
StaticRetrieveChecksExpiry(c) ==
    /\ Free(c)
    /\ call' = [call EXCEPT ![c] = [IdleCall EXCEPT
                    !.pc = "done", !.op = "StaticRetrieve", !.via = "static",
                    !.result = IF now > staticProvider.credentials.ExpiresAt
                               THEN NilCreds ELSE staticProvider.credentials,
                    !.err = IF now > staticProvider.credentials.ExpiresAt
                            THEN ErrorString("*errors.errorString", "token expired")
                            ELSE NoErr]]
    /\ calls' = calls + 1
    /\ UNCHANGED <<now, prov, stats, nProv, issued, credentialsProvider, cfg,
                   abdmKey, authKey, staticProvider>>
    /\ UNCHANGED auxVars

\* StaticCredentialsProvider.Retrieve: return p.credentials, nil
StaticRetrieve(c) ==
    /\ Free(c)
    /\ call' = [call EXCEPT ![c] = [IdleCall EXCEPT
                    !.pc = "done", !.op = "StaticRetrieve",
                    !.result = staticProvider.credentials, !.via = "static"]]
    /\ calls' = calls + 1
    /\ UNCHANGED <<now, prov, stats, nProv, issued, credentialsProvider, cfg,
                   abdmKey, authKey, staticProvider>>
    /\ UNCHANGED auxVars

\* ----------------------------------------------------------- ekasdk.Client
\* Client.GetCredentials
GetCredentials(c) ==
    /\ Free(c)
    /\ IF credentialsProvider = NilProvider
       THEN call' = [call EXCEPT ![c] = [IdleCall EXCEPT
                        !.pc = "done", !.op = "GetCredentials",
                        !.err = ErrorString("*errors.errorString",
                                            "no credentials provider configured")]]
       ELSE call' = [call EXCEPT ![c] = [IdleCall EXCEPT
                        !.pc = "rlock", !.op = "GetCredentials",
                        !.tgt = credentialsProvider]]
    /\ calls' = calls + 1
    /\ UNCHANGED <<now, prov, stats, nProv, issued, credentialsProvider, cfg,
                   abdmKey, authKey, staticProvider>>
    /\ UNCHANGED auxVars

\* Variant: the provider is created and installed before the configuration
\* is checked.
LoginBeginInstallsFirst(c) ==
    /\ Free(c)
    /\ nProv < MaxProviders
    /\ nProv' = nProv + 1
    /\ credentialsProvider' = nProv + 1
    /\ IF cfg.ClientID = ""
       THEN call' = [call EXCEPT ![c] = [IdleCall EXCEPT
                        !.pc = "done", !.op = "Login",
                        !.err = ErrorString("*errors.errorString",
                                            "client ID is required for authentication")]]
       ELSE IF cfg.ClientSecret = ""
       THEN call' = [call EXCEPT ![c] = [IdleCall EXCEPT
                        !.pc = "done", !.op = "Login",
                        !.err = ErrorString("*errors.errorString",
                                            "client secret is required for authentication")]]
       ELSE call' = [call EXCEPT ![c] = [IdleCall EXCEPT
                        !.pc = "rlock", !.op = "Login", !.tgt = nProv + 1]]
    /\ calls' = calls + 1
    /\ UNCHANGED <<now, prov, stats, issued, cfg, abdmKey, authKey,
                   staticProvider>>
    /\ UNCHANGED auxVars

\* Client.Login up to the call of provider.Retrieve: the two configuration
\* checks, then a new provider is created and installed.
LoginBegin(c) ==
    /\ Free(c)
    /\ IF cfg.ClientID = ""
       THEN /\ call' = [call EXCEPT ![c] = [IdleCall EXCEPT
                          !.pc = "done", !.op = "Login",
                          !.err = ErrorString("*errors.errorString",
                                              "client ID is required for authentication")]]
            /\ UNCHANGED <<nProv, credentialsProvider>>
       ELSE IF cfg.ClientSecret = ""
       THEN /\ call' = [call EXCEPT ![c] = [IdleCall EXCEPT
                          !.pc = "done", !.op = "Login",
                          !.err = ErrorString("*errors.errorString",
                                              "client secret is required for authentication")]]
            /\ UNCHANGED <<nProv, credentialsProvider>>
       ELSE /\ nProv < MaxProviders
            /\ nProv' = nProv + 1
            /\ credentialsProvider' = nProv + 1
            /\ call' = [call EXCEPT ![c] = [IdleCall EXCEPT
                          !.pc = "rlock", !.op = "Login", !.tgt = nProv + 1]]
    /\ calls' = calls + 1
    /\ UNCHANGED <<now, prov, stats, issued, cfg, abdmKey, authKey,
                   staticProvider>>
    /\ UNCHANGED auxVars

\* Client.Login after provider.Retrieve returned: wrap the error, or set the
\* authorization token and recreate the ABDM client.
LoginFinish(c) ==
    /\ call[c].pc = "loginfin"
    /\ IF call[c].err # NoErr
       THEN /\ call' = [call EXCEPT ![c].pc = "done",
                          ![c].err = Errorf("failed to authenticate with provided credentials", @)]
            /\ UNCHANGED <<cfg, abdmKey>>
       ELSE /\ cfg' = [cfg EXCEPT !.AuthorizationToken = call[c].result.AccessToken]
            /\ abdmKey' = createABDMClient(cfg')
            /\ call' = [call EXCEPT ![c].pc = "done"]
    /\ UNCHANGED <<now, prov, stats, nProv, issued, credentialsProvider,
                   authKey, staticProvider, calls>>
    /\ UNCHANGED auxVars

\* A facade call of Client.ABDM (LoginInit, AadhaarInit, ...): one Do on the
\* facade's http client.
FacadeOutcomes == { Outcome("ok", 200, "json", 0, "", 0, FALSE, 0), NetFailure }

FacadeCall(c) ==
    /\ Free(c)
    /\ \E o \in FacadeOutcomes :
         LET r == Do(abdmKey, o) IN
         call' = [call EXCEPT ![c] = [IdleCall EXCEPT
                     !.pc = "done", !.op = "Facade", !.err = r.err,
                     !.sent = r.bearer, !.via = "facade"]]
    /\ calls' = calls + 1
    /\ UNCHANGED <<now, prov, stats, nProv, issued, credentialsProvider, cfg,
                   abdmKey, authKey, staticProvider>>
    /\ UNCHANGED auxVars

\* ----------------------------------------------------------- specification
\* The goroutine that owns the client.
Main == CHOOSE c \in Callers : \A d \in Callers : c <= d

\* The client in the hands of one goroutine: Login, GetCredentials, facade
\* calls and the static provider, while the clock runs.
Next ==
    \/ Tick
    \/ RLock(Main)
    \/ FastCheck(Main)
    \/ Lock(Main)
    \/ DoubleCheck(Main)
    \/ RefreshReturn(Main)
    \/ LoginReturn(Main)
    \/ LoginFinish(Main)
    \/ StaticRetrieve(Main)
    \/ GetCredentials(Main)
    \/ LoginBegin(Main)
    \/ FacadeCall(Main)

Spec == Init /\ [][Next]_vars

\* One credential store shared by all goroutines: the client after
\* SetCredentialsProvider(NewClientCredentialsProvider(req)).
StoreInit ==
    /\ now = 0
    /\ prov = [p \in Providers |-> NewClientCredentialsProvider]
    /\ stats = [p \in Providers |-> NoStats]
    /\ nProv = 1
    /\ issued = 0
    /\ credentialsProvider = 1
    /\ cfg = [ClientID |-> "client-id", ClientSecret |-> "client-secret",
              AuthorizationToken |-> EmptyToken]
    /\ abdmKey = EmptyToken
    /\ authKey = EmptyToken
    /\ staticProvider = NewStaticCredentialsProvider(StaticToken, StaticToken, 600, 900, 0)
    /\ call = [c \in Callers |-> IdleCall]
    /\ calls = 0
    /\ probe = NoProbe
    /\ rw = IdleRetry
    /\ tr = IdleTransport
    /\ ExtraIdle

\* The steps of a Retrieve that is under way.
RetrieveStep(c) ==
    \/ RLock(c)
    \/ FastCheck(c)
    \/ Lock(c)
    \/ DoubleCheck(c)
    \/ RefreshReturn(c)
    \/ LoginReturn(c)

StoreNext ==
    \/ Tick
    \/ \E c \in Callers :
         \/ RetrieveStep(c)
         \/ GetCredentials(c)

StoreSpec == StoreInit /\ [][StoreNext]_vars

\* Every goroutine keeps running its call: the scheduler runs it, the mutex
\* is handed over once free, and a network exchange ends (answer, timeout or
\* cancelled context).
\* Two goroutines on the store whose contexts may be cancelled while an
\* exchange runs.
Pair == {Main, Main + 1}

LiveNext ==
    \/ Tick
    \/ \E c \in Pair :
         \/ RetrieveStep(c)
         \/ Cancel(c)
         \/ GetCredentials(c)

LiveSpec ==
    StoreInit /\ [][LiveNext]_vars /\ \A c \in Pair : WF_vars(RetrieveStep(c))

\* --------------------------------------------------- Credentials.Expired
\* A client right after New, on which nothing is called.
QuietClient ==
    /\ now = 0
    /\ prov = [p \in Providers |-> NewClientCredentialsProvider]
    /\ stats = [p \in Providers |-> NoStats]
    /\ nProv = 0
    /\ issued = 0
    /\ credentialsProvider = NilProvider
    /\ cfg = [ClientID |-> "client-id", ClientSecret |-> "client-secret",
              AuthorizationToken |-> EmptyToken]
    /\ abdmKey = EmptyToken
    /\ authKey = EmptyToken
    /\ staticProvider = NewStaticCredentialsProvider(StaticToken, StaticToken, 600, 900, 0)
    /\ call = [c \in Callers |-> IdleCall]
    /\ calls = 0

\* The instants at which the clock is read and at which a credential expires.
Instants == {m * Minute : m \in 0..MaxMinutes}

\* A credential with some ExpiresAt, about to be asked at some time.
ExpiryInit ==
    /\ QuietClient
    /\ rw = IdleRetry
    /\ tr = IdleTransport
    /\ ExtraIdle
    /\ \E t \in Instants, e \in Instants :
          probe = [pc |-> "asked", now |-> t, ExpiresAt |-> e, expired |-> FALSE]

\* c.Expired() is called: time.Now() is read and compared.
ExpiredCall ==
    /\ probe.pc = "asked"
    /\ probe' = [probe EXCEPT
                    !.pc = "answered",
                    !.expired = Expired([ExpiresAt |-> probe.ExpiresAt], probe.now)]
    /\ UNCHANGED <<clientVars, rw, tr, extraVars>>

\* Time passes and the same credential is asked again.
ExpiredAgain ==
    /\ probe.pc = "answered"
    /\ probe.now + Minute \in Instants
    /\ probe' = [probe EXCEPT !.pc = "asked", !.now = @ + Minute]
    /\ UNCHANGED <<clientVars, rw, tr, extraVars>>

ExpiryNext == ExpiredCall \/ ExpiredAgain

ExpirySpec == ExpiryInit /\ [][ExpiryNext]_vars

\* ---------------------------------------------------- RetryWithBackoff
\* The error of the k-th invocation of fn, and ctx.Err() of a cancelled
\* context.
FnError(k) == [kind |-> "fn", id |-> k]

CtxError == [kind |-> "ctx", id |-> 0]

\* The delays a caller passes as initialDelay: none, or one unit.
Delays == {0, 1}

\* A call of RetryWithBackoff(ctx, fn, maxRetries, initialDelay); the
\* caller may pass a negative maxRetries and a context already cancelled.
RetryBegin ==
    /\ rw.pc \in {"idle", "returned"}
    /\ \E n \in -1..MaxRetries, d \in Delays, x \in {"live", "cancelled"} :
          rw' = [IdleRetry EXCEPT !.pc = "loop", !.maxRetries = n,
                                  !.delay = d, !.ctx = x,
                                  !.cancelledAt = IF x = "cancelled"
                                                  THEN "before" ELSE "none"]
    /\ UNCHANGED <<clientVars, probe, tr, extraVars>>

\* select { case <-ctx.Done(): ...; case <-time.After(delay): ... } as it
\* is entered: a cancelled context is ready at once, a delay that is not
\* positive may be ready as well and then either case can be taken.
SelectEntered(r) ==
    IF r.ctx = "live" THEN {"none"}
    ELSE IF r.delay > 0 THEN {"done"}
    ELSE {"done", "timer"}

\* One pass of the loop body up to the select: fn is invoked; nil ends the
\* call, an error is kept in lastErr and, unless this was the last attempt,
\* the select is entered.
Attempt ==
    /\ rw.pc = "loop"
    /\ rw.attempt <= rw.maxRetries
    /\ \E ok \in BOOLEAN, w \in SelectEntered(rw) :
          rw' = IF ok
                THEN [rw EXCEPT !.pc = "returned", !.invoked = @ + 1,
                                !.succeeded = rw.invoked + 1,
                                !.err = NilError]
                ELSE IF rw.attempt < rw.maxRetries
                THEN [rw EXCEPT !.pc = "wait", !.invoked = @ + 1,
                                !.lastErr = FnError(rw.invoked + 1),
                                !.woken = w]
                ELSE [rw EXCEPT !.pc = "loop", !.invoked = @ + 1,
                                !.lastErr = FnError(rw.invoked + 1),
                                !.attempt = @ + 1]
    /\ UNCHANGED <<clientVars, probe, tr, extraVars>>

\* The loop condition fails: return lastErr
Exhausted ==
    /\ rw.pc = "loop"
    /\ rw.attempt > rw.maxRetries
    /\ rw' = [rw EXCEPT !.pc = "returned", !.err = rw.lastErr]
    /\ UNCHANGED <<clientVars, probe, tr, extraVars>>

\* The delay elapses while the select is blocked.
TimerFires ==
    /\ rw.pc = "wait"
    /\ rw.woken = "none"
    /\ rw' = [rw EXCEPT !.woken = "timer"]
    /\ UNCHANGED <<clientVars, probe, tr, extraVars>>

\* The caller cancels the context; a blocked select is woken by it.
RetryCancel ==
    /\ rw.pc \in {"loop", "wait"}
    /\ rw.ctx = "live"
    /\ rw' = [rw EXCEPT
                !.ctx = "cancelled",
                !.woken = IF rw.pc = "wait" /\ rw.woken = "none"
                          THEN "done" ELSE @,
                !.cancelledAt = IF rw.pc = "wait" /\ rw.woken = "none"
                                THEN "wait"
                                ELSE IF rw.pc = "wait" THEN "elapsed"
                                ELSE "between",
                !.invokedAtCancel = rw.invoked]
    /\ UNCHANGED <<clientVars, probe, tr, extraVars>>

\* Variant: a cancelled wait returns the operation's last error.
SelectReturnsLastErr ==
    /\ rw.pc = "wait"
    /\ rw.woken # "none"
    /\ rw' = IF rw.woken = "done"
             THEN [rw EXCEPT !.pc = "returned", !.err = rw.lastErr]
             ELSE [rw EXCEPT !.pc = "loop", !.woken = "none",
                             !.delay = @ * 2, !.attempt = @ + 1]
    /\ UNCHANGED <<clientVars, probe, tr, extraVars>>

\* The select resumes with the case that woke it: return ctx.Err(), or
\* double the delay and go round the loop.
SelectReturn ==
    /\ rw.pc = "wait"
    /\ rw.woken # "none"
    /\ rw' = IF rw.woken = "done"
             THEN [rw EXCEPT !.pc = "returned", !.err = CtxError]
             ELSE [rw EXCEPT !.pc = "loop", !.woken = "none",
                             !.delay = @ * 2, !.attempt = @ + 1]
    /\ UNCHANGED <<clientVars, probe, tr, extraVars>>

RetryInit ==
    /\ QuietClient
    /\ probe = NoProbe
    /\ rw = IdleRetry
    /\ tr = IdleTransport
    /\ ExtraIdle

RetryNext ==
    \/ RetryBegin
    \/ Attempt
    \/ Exhausted
    \/ TimerFires
    \/ RetryCancel
    \/ SelectReturn

RetrySpec == RetryInit /\ [][RetryNext]_vars

\* ------------------------------------------------------------ construction
\* The built-in defaults: DefaultClientOptions() of ekasdk, and the values
\* abdm.New writes into the fields it finds zero.
DefaultsOf(ctor) ==
    IF ctor = "ekasdk"
    THEN [MaxRetries |-> 3, Timeout |-> 30, UserAgent |-> "eka-sdk-go/1.0.0"]
    ELSE [MaxRetries |-> 3, Timeout |-> 30, UserAgent |-> "eka-sdk-go/1.0"]

\* The arguments given to WithMaxRetries, WithTimeout and WithUserAgent.
OptionValues ==
    [MaxRetries |-> {0, 1}, Timeout |-> {0, 10}, UserAgent |-> {"", "custom"}]

\* if cfg.X == zero { cfg.X = default }, for every field
FillDefaults(c, ctor) ==
    [f \in Fields |-> IF c[f] = ZeroConfig[f] THEN DefaultsOf(ctor)[f] ELSE c[f]]

\* New(opts...) starts: ekasdk.New begins from DefaultClientOptions(),
\* abdm.New from a Config whose fields are zero.
NewBegin ==
    /\ build.pc \in {"idle", "built"}
    /\ \E ctor \in {"ekasdk", "abdm"} :
          build' = [IdleBuild EXCEPT
                      !.pc = "options", !.ctor = ctor,
                      !.cfg = IF ctor = "ekasdk" THEN DefaultsOf(ctor)
                              ELSE ZeroConfig]
    /\ UNCHANGED <<clientVars, probe, rw, tr, acc, fc, cc>>

\* for _, opt := range opts { opt(cfg) }: one option writes its field.
ApplyOption ==
    /\ build.pc = "options"
    /\ build.n < MaxOptions
    /\ \E f \in Fields : \E v \in OptionValues[f] :
          build' = [build EXCEPT !.n = @ + 1, !.cfg[f] = v, !.last[f] = <<v>>]
    /\ UNCHANGED <<clientVars, probe, rw, tr, acc, fc, cc>>

\* The options are applied: abdm.New now fills the fields that are zero,
\* ekasdk.New copies the options into the config.
NewFinish ==
    /\ build.pc = "options"
    /\ build' = [build EXCEPT
                   !.pc = "built",
                   !.cfg = IF build.ctor = "abdm"
                           THEN FillDefaults(@, build.ctor) ELSE @]
    /\ UNCHANGED <<clientVars, probe, rw, tr, acc, fc, cc>>

BuildInit ==
    /\ QuietClient
    /\ probe = NoProbe
    /\ rw = IdleRetry
    /\ tr = IdleTransport
    /\ ExtraIdle

BuildNext ==
    \/ NewBegin
    \/ ApplyOption
    \/ NewFinish

BuildSpec == BuildInit /\ [][BuildNext]_vars

\* ------------------------------------- unsynchronised fields of the Client
\* One step of an operation: a read or a write of a field of the Client
\* with the mutex held around it (the Client has none), or a call that
\* touches no field of the Client ("call").
Access(kind, field) == [kind |-> kind, field |-> field, lock |-> "none"]

\* The steps of the public operations, in program order.
Program(op) ==
    CASE op = "Login" ->
           << Access("write", "credentialsProvider"),
              Access("call", "Retrieve"),
              Access("write", "AuthorizationToken"),
              Access("read", "AuthorizationToken"),
              Access("write", "ABDM") >>
      [] op = "GetCredentials" ->
           << Access("read", "credentialsProvider"),
              Access("read", "credentialsProvider"),
              Access("call", "Retrieve") >>
      [] op = "SetCredentialsProvider" ->
           << Access("write", "credentialsProvider") >>
      [] op = "Facade" ->
           << Access("read", "ABDM"),
              Access("call", "Do") >>

Operations == {"Login", "GetCredentials", "SetCredentialsProvider", "Facade"}

\* The step goroutine c is about to take.
Pending(c) ==
    IF acc.at[c].op = "none"
    THEN Access("none", "none")
    ELSE Program(acc.at[c].op)[acc.at[c].pc]

\* A goroutine enters a public operation of the shared Client.
RaceBegin(c) ==
    /\ acc.at[c].op = "none"
    /\ \E op \in Operations :
          acc' = [acc EXCEPT !.at[c] = [op |-> op, pc |-> 1]]
    /\ UNCHANGED <<clientVars, probe, rw, tr, build, fc, cc>>

\* The operation returns after this step: it was the last one, Retrieve
\* failed inside Login, or GetCredentials found the provider nil.
ReturnsAfter(c, failed) ==
    LET a == acc.at[c] IN
    \/ a.pc = Len(Program(a.op))
    \/ a.op = "Login" /\ Pending(c).kind = "call" /\ failed
    \/ /\ a.op = "GetCredentials" /\ a.pc = 1
       /\ acc.by["credentialsProvider"] = NoCaller

\* Goroutine c takes its next step.
RaceStep(c) ==
    /\ acc.at[c].op # "none"
    /\ \E failed \in BOOLEAN :
          /\ failed => Pending(c).kind = "call"
          /\ acc' = [acc EXCEPT
                       !.at[c] = IF ReturnsAfter(c, failed)
                                 THEN [op |-> "none", pc |-> 0]
                                 ELSE [@ EXCEPT !.pc = @ + 1],
                       !.by = IF Pending(c).kind = "write"
                              THEN [@ EXCEPT ![Pending(c).field] = c]
                              ELSE @]
    /\ UNCHANGED <<clientVars, probe, rw, tr, build, fc, cc>>

RaceInit ==
    /\ QuietClient
    /\ probe = NoProbe
    /\ rw = IdleRetry
    /\ tr = IdleTransport
    /\ ExtraIdle

RaceNext == \E c \in Callers : RaceBegin(c) \/ RaceStep(c)

RaceSpec == RaceInit /\ [][RaceNext]_vars

\* ------------------------------------------------------ CredentialsCache
\* What the wrapped provider's Retrieve returns on its k-th call at time t:
\* a credential valid for ten or for two minutes, or an error.
WrappedLifetimes == {600, 120}

WrappedCredentials(k, t, life) ==
    [AccessToken |-> k, RefreshToken |-> EmptyToken, ExpiresAt |-> t + life,
     RefreshExpiresAt |-> 0, Source |-> "wrapped"]

WrappedError(k) == [kind |-> "provider", id |-> k]

\* c.cache != nil && !c.cache.Expired()
CacheUsable == cc.cache # NilCreds /\ ~Expired(cc.cache, now)

\* A goroutine calls CredentialsCache.Retrieve.
CacheBegin(c) ==
    /\ cc.at[c].pc \in {"idle", "done"}
    /\ cc' = [cc EXCEPT !.at[c] = [pc |-> "rlock", result |-> NilCreds,
                                    err |-> NilError, snap |-> NilCreds]]
    /\ UNCHANGED <<clientVars, probe, rw, tr, build, acc, fc>>

\* c.mu.RLock()
CacheRLock(c) ==
    /\ cc.at[c].pc = "rlock"
    /\ cc.writer = NoCaller
    /\ cc' = [cc EXCEPT !.readers = @ \cup {c}, !.at[c].pc = "fast"]
    /\ UNCHANGED <<clientVars, probe, rw, tr, build, acc, fc>>

\* The check under the read lock, and c.mu.RUnlock() on both paths.
CacheFastCheck(c) ==
    /\ cc.at[c].pc = "fast"
    /\ cc' = IF CacheUsable
             THEN [cc EXCEPT !.readers = @ \ {c}, !.at[c].pc = "done",
                             !.at[c].result = cc.cache]
             ELSE [cc EXCEPT !.readers = @ \ {c}, !.at[c].pc = "lock"]
    /\ UNCHANGED <<clientVars, probe, rw, tr, build, acc, fc>>

\* c.mu.Lock(); defer c.mu.Unlock()
CacheLock(c) ==
    /\ cc.at[c].pc = "lock"
    /\ cc.writer = NoCaller
    /\ cc.readers = {}
    /\ cc' = [cc EXCEPT !.writer = c, !.at[c].pc = "dcheck",
                        !.at[c].snap = cc.cache]
    /\ UNCHANGED <<clientVars, probe, rw, tr, build, acc, fc>>

\* The double check under the exclusive lock; when it fails the wrapped
\* provider is called.
CacheDoubleCheck(c) ==
    /\ cc.at[c].pc = "dcheck"
    /\ IF CacheUsable
       THEN cc' = [cc EXCEPT !.writer = NoCaller, !.at[c].pc = "done",
                             !.at[c].result = cc.cache]
       ELSE /\ cc.n < MaxCalls
            /\ cc' = [cc EXCEPT !.n = @ + 1, !.at[c].pc = "calling"]
    /\ UNCHANGED <<clientVars, probe, rw, tr, build, acc, fc>>

\* Variant: an error of the wrapped provider empties the cache.
CacheProviderReturnDropsCache(c) ==
    /\ cc.at[c].pc = "calling"
    /\ \/ \E life \in WrappedLifetimes :
            LET creds == WrappedCredentials(cc.n, now, life) IN
            cc' = [cc EXCEPT !.cache = creds, !.writer = NoCaller,
                             !.at[c].pc = "done", !.at[c].result = creds]
       \/ cc' = [cc EXCEPT !.cache = NilCreds, !.writer = NoCaller,
                           !.at[c].pc = "done",
                           !.at[c].err = WrappedError(cc.n)]
    /\ UNCHANGED <<clientVars, probe, rw, tr, build, acc, fc>>

\* c.provider.Retrieve(ctx) returns: the error is passed on, or the
\* credential is stored and returned; the deferred Unlock runs either way.
CacheProviderReturn(c) ==
    /\ cc.at[c].pc = "calling"
    /\ \/ \E life \in WrappedLifetimes :
            LET creds == WrappedCredentials(cc.n, now, life) IN
            cc' = [cc EXCEPT !.cache = creds, !.writer = NoCaller,
                             !.at[c].pc = "done", !.at[c].result = creds]
       \/ cc' = [cc EXCEPT !.writer = NoCaller, !.at[c].pc = "done",
                           !.at[c].err = WrappedError(cc.n)]
    /\ UNCHANGED <<clientVars, probe, rw, tr, build, acc, fc>>

CacheInit ==
    /\ QuietClient
    /\ probe = NoProbe
    /\ rw = IdleRetry
    /\ tr = IdleTransport
    /\ ExtraIdle

CacheNext ==
    \/ Tick
    \/ \E c \in Callers :
         \/ CacheBegin(c)
         \/ CacheRLock(c)
         \/ CacheFastCheck(c)
         \/ CacheLock(c)
         \/ CacheDoubleCheck(c)
         \/ CacheProviderReturn(c)

CacheSpec == CacheInit /\ [][CacheNext]_vars

\* ------------------------------------------------- transport and middleware
\* What the remote API answers to a request of a facade or of a direct
\* caller of Client.Do: a network failure, or a status with a body.
TransportOutcomes ==
    { NetFailure,
      Outcome("ok", 200, "json", 0, "", 0, FALSE, 0),
      Outcome("ok", 200, "empty", 0, "", 0, FALSE, 0),
      Outcome("ok", 400, "envelope", 400, "bad request", 0, FALSE, 0),
      Outcome("ok", 404, "json", 0, "", 0, FALSE, 0),
      Outcome("ok", 404, "empty", 0, "", 0, FALSE, 0),
      Outcome("ok", 429, "envelope", 429, "too many requests", 0, FALSE, 0),
      Outcome("ok", 500, "envelope", 500, "internal error", 0, FALSE, 0),
      Outcome("ok", 500, "raw", 0, "", 0, FALSE, 0) }

\* (nil, nil) from a round tripper: http.Client.Do turns it into an error.
NilResponse == Outcome("nilnil", 0, "raw", 0, "", 0, FALSE, 0)

\* The HTTP methods of the requests (the facades use POST and GET).
Methods == {"GET", "POST", "PATCH"}

\* LoggingMiddleware and RetryMiddleware; a chain holds at most one retry.
Middlewares == {"logging", "retry"}

\* The middleware of the http client that a facade built for itself with
\* NewClientFromInterface: nothing ever registers one on it.
FacadeMiddleware == <<>>

InChain(mw, chain) == \E i \in 1..Len(chain) : chain[i] = mw

\* for _, mw := range c.middleware { transport = mw(transport) }: every
\* middleware wraps what was built so far.  A chain lists its middleware
\* from the outermost, which sees the request first, to the innermost.
RECURSIVE WrapAll(_, _)
WrapAll(chain, mws) ==
    IF mws = <<>> THEN chain
    ELSE WrapAll(<<Head(mws)>> \o chain, Tail(mws))

TransportFree == tr.pc \in {"idle", "returned"}

\* http Client.AddMiddleware on a client its caller holds; a retry
\* middleware is built by RetryMiddleware(maxRetries, backoff).
HttpAddMiddleware ==
    /\ TransportFree
    /\ Len(tr.httpMw) < MaxMiddleware
    /\ \E mw \in Middlewares, n \in 0..MaxRetries :
          /\ mw = "retry" => ~InChain("retry", tr.httpMw)
          /\ mw # "retry" => n = tr.maxRetries
          /\ tr' = [tr EXCEPT !.httpMw = Append(@, mw), !.maxRetries = n]
    /\ UNCHANGED <<clientVars, probe, rw, extraVars>>

\* abdm Client.AddMiddleware: c.middleware = append(c.middleware, middleware)
SdkAddMiddleware ==
    /\ TransportFree
    /\ Len(tr.sdkMw) < MaxMiddleware
    /\ \E mw \in Middlewares :
          tr' = [tr EXCEPT !.sdkMw = Append(@, mw)]
    /\ UNCHANGED <<clientVars, probe, rw, extraVars>>

\* Client.Do up to client.Do(httpReq): the transport is wrapped in the
\* middleware of the http client the call runs on.
DoBegin ==
    /\ TransportFree
    /\ \E m \in Methods, who \in {"http", "facade"} :
          tr' = [tr EXCEPT
                   !.pc = "roundtrip", !.method = m, !.via = who,
                   !.applied = IF who = "facade" THEN FacadeMiddleware
                                ELSE WrapAll(<<>>, tr.httpMw),
                   !.attempt = 0, !.lastErr = FALSE, !.sends = 0,
                   !.last = NoAnswer, !.got = NoAnswer,
                   !.resp = IdleTransport.resp, !.err = NoErr]
    /\ UNCHANGED <<clientVars, probe, rw, extraVars>>

\* Client.Do from client.Do(httpReq) on, for what the transport chain
\* handed back.
DoReturn(o) ==
    LET r == Do(EmptyToken, o) IN
    [tr EXCEPT !.pc = "returned", !.sends = @ + 1, !.got = o,
               !.resp = [StatusCode |-> r.StatusCode, Body |-> r.Body],
               !.err = r.err]

\* retryTransport.RoundTrip, one pass of its loop for the answer o of the
\* underlying round tripper: return the response, or remember the error and
\* go round again, or give up with (nil, lastErr).
RetryRoundTrip(o) ==
    LET failed == tr.lastErr \/ o.net # "ok" IN
    IF o.net = "ok" /\ o.status < 500
    THEN DoReturn(o)
    ELSE IF tr.attempt < tr.maxRetries
    THEN [tr EXCEPT !.attempt = @ + 1, !.sends = @ + 1, !.lastErr = failed]
    ELSE DoReturn(IF failed THEN NetFailure ELSE NilResponse)

\* The request is handed to the underlying round tripper and answered.
RoundTrip ==
    /\ tr.pc = "roundtrip"
    /\ \E o \in TransportOutcomes :
          tr' = [(IF InChain("retry", tr.applied)
                  THEN RetryRoundTrip(o)
                  ELSE DoReturn(o)) EXCEPT !.last = o]
    /\ UNCHANGED <<clientVars, probe, rw, extraVars>>

TransportInit ==
    /\ QuietClient
    /\ probe = NoProbe
    /\ rw = IdleRetry
    /\ tr = IdleTransport
    /\ ExtraIdle

TransportNext ==
    \/ HttpAddMiddleware
    \/ SdkAddMiddleware
    \/ DoBegin
    \/ RoundTrip

TransportSpec == TransportInit /\ [][TransportNext]_vars

\* ----------------------------------------------------- profile facades
\* The operations of the profile service that take a request pointer and
\* read req.OID, and DeleteProfile, which takes the OID as a string.
ProfileOperations ==
    {"UpdateProfile", "DeleteProfile", "KYCInit", "KYCResend", "KYCVerify"}

\* The request pointers a caller passes (for DeleteProfile: the oid string).
Requests(op) ==
    IF op = "DeleteProfile" THEN {"withOID", "withoutOID"}
    ELSE {"nil", "withOID", "withoutOID"}

\* The caller invokes the operation; the HTTPRequest literal is built with
\* Body: req.
ProfileBegin ==
    /\ fc.pc \in {"idle", "returned", "panicked"}
    /\ \E op \in ProfileOperations : \E req \in Requests(op) :
          fc' = [IdleFacade EXCEPT !.pc = "built", !.op = op, !.req = req]
    /\ UNCHANGED <<clientVars, probe, rw, tr, build, acc, cc>>

\* if req.OID != "" { ... httpReq.Params = queryParams }: the field is read
\* through the pointer, which panics when the pointer is nil.
ReadOID ==
    /\ fc.pc = "built"
    /\ fc' = IF fc.req = "nil"
             THEN [fc EXCEPT !.pc = "panicked"]
             ELSE [fc EXCEPT !.pc = "do",
                             !.Params = IF fc.req = "withOID" THEN "oid"
                                        ELSE "none"]
    /\ UNCHANGED <<clientVars, probe, rw, tr, build, acc, cc>>

\* s.http.Do(ctx, httpReq) and the return of its error or of the result.
ProfileDo ==
    /\ fc.pc = "do"
    /\ \E o \in TransportOutcomes :
          fc' = [fc EXCEPT !.pc = "returned", !.got = o,
                           !.err = Do(EmptyToken, o).err]
    /\ UNCHANGED <<clientVars, probe, rw, tr, build, acc, cc>>

ProfileInit ==
    /\ QuietClient
    /\ probe = NoProbe
    /\ rw = IdleRetry
    /\ tr = IdleTransport
    /\ ExtraIdle

ProfileNext ==
    \/ ProfileBegin
    \/ ReadOID
    \/ ProfileDo

ProfileSpec == ProfileInit /\ [][ProfileNext]_vars

\* ================================================================== claims
InExchange(c) == call[c].pc \in {"refreshing", "logging"}

\* The step is the return of caller c from Retrieve.
RetrieveReturns(c) ==
    /\ call[c].pc \in {"rcheck", "dcheck", "refreshing", "logging"}
    /\ call'[c].pc \in {"loginfin", "done"}

\* Callers on provider p whose call began on the empty cache and started a
\* login exchange.
EmptyCacheLogins(p) ==
    {c \in Callers : call[c].tgt = p /\ call[c].sawEmpty /\ call[c].nLogin > 0}

\* C1 as stated: concurrent Retrieve calls that began on the empty cache of
\* one provider start exactly one login exchange between them.
C1_ExactlyOneLogin ==
    \A p \in Providers : Cardinality(EmptyCacheLogins(p)) <= 1

\* C1 amended: concurrent Retrieve calls on the empty cache of one provider
\* result in exactly one login exchange as long as no login exchange failed
\* and no caller found the cached credential Expired under the exclusive
\* lock; only after a failed login or an Expired credential does a further
\* caller start an exchange of its own.
C1_OneLoginUnlessFailedOrExpired ==
    \A p \in Providers :
        (~stats[p].failedLogin /\ ~stats[p].sawExpired) =>
            /\ stats[p].loginCalls <= 1
            /\ stats[p].refreshCalls = 0
            /\ \A c \in Callers :
                  (call[c].tgt = p /\ call[c].pc \in {"loginfin", "done"})
                      => stats[p].loginCalls = 1

\* Two callers began on the empty cache of one provider; one logged in, the
\* other got the credential from the re-check.
C1_Witness ==
    \E a, b \in Callers :
        /\ a # b
        /\ call[a].tgt = call[b].tgt
        /\ call[a].via = "login" /\ call[a].sawEmpty
        /\ call[b].via = "recheck" /\ call[b].sawEmpty
        /\ call[b].pc = "done"

\* C2: no two callers are inside an authentication exchange (ClientLogin or
\* RefreshToken) of the same provider at the same time.
C2_SingleExchangeInFlight ==
    \A a, b \in Callers :
        (a # b /\ InExchange(a) /\ InExchange(b)) => call[a].tgt # call[b].tgt

\* One caller is inside an exchange while another waits for the exclusive
\* lock of the same provider.
C2_Witness ==
    \E a, b \in Callers :
        /\ InExchange(a)
        /\ call[b].pc = "lock"
        /\ call[a].tgt = call[b].tgt

\* What a check of caller c that finds a usable cached credential does.
C3_Step(c) ==
    LET p == call[c].tgt IN
    (/\ call[c].pc \in {"rcheck", "dcheck"}
     /\ call'[c] # call[c]
     /\ prov[p].cache # NilCreds
     /\ ~Expired(prov[p].cache, now))
    => /\ RetrieveReturns(c)
       /\ call'[c].result = prov[p].cache
       /\ call'[c].err = NoErr
       /\ call'[c].nLogin = 0 /\ call'[c].nRefresh = 0
       /\ prov'[p].cache = prov[p].cache
       /\ stats' = stats
       /\ issued' = issued

\* C3: a check (fast path or re-check) that finds a usable cached credential
\* returns that credential with a nil error, leaves the cache alone and
\* starts no exchange.
C3_UsableCacheReturned == [][\A c \in Callers : C3_Step(c)]_vars

\* A caller got the cached credential from the re-check under the exclusive
\* lock while another one got it on the fast path.
C3_Witness ==
    \E a, b \in Callers :
        /\ call[a].via = "recheck" /\ call[a].pc = "done"
        /\ call[a].result # NilCreds
        /\ call[b].via = "fast" /\ call[b].result # NilCreds

\* What the successful login of caller c after its failed refresh does.
C4_Step(c) ==
    LET p == call[c].tgt IN
    (/\ call[c].pc = "logging"
     /\ call[c].via = "refreshFailed"
     /\ RetrieveReturns(c)
     /\ call'[c].ans.net = "ok" /\ call'[c].ans.status < 400)
    => /\ call'[c].nRefresh = 1
       /\ call'[c].nLogin = 1
       /\ call[c].snap # NilCreds
       /\ call[c].snap.RefreshToken # EmptyToken
       /\ call'[c].err = NoErr
       /\ call'[c].result.Source = "ClientCredentialsProvider(login)"
       /\ call'[c].result.AccessToken = issued'
       /\ call'[c].result.AccessToken # call[c].snap.AccessToken
       /\ call'[c].result.ExpiresAt = now + call'[c].ans.ExpiresIn
       /\ prov'[p].cache = call'[c].result
       /\ prov'[p].writer = NoCaller

\* C4: a Retrieve whose refresh exchange failed and whose login exchange
\* then succeeded has tried the refresh once and the login once, found the
\* cache expired but refreshable, stored the credential built from the login
\* response and returned it with a nil error.
C4_RefreshOnceThenLogin == [][\A c \in Callers : C4_Step(c)]_vars

\* A call has returned the credential of the login that followed its failed
\* refresh, and the cache holds that credential.
C4_Witness ==
    \E c \in Callers :
        /\ call[c].pc = "done"
        /\ call[c].via = "refreshFailedLogin"
        /\ prov[call[c].tgt].cache = call[c].result

\* What the failed login of caller c does, and what the next call does.
C5_Step(c) ==
    LET p == call[c].tgt IN
    /\ (/\ call[c].pc = "logging"
        /\ RetrieveReturns(c)
        /\ ~(call'[c].ans.net = "ok" /\ call'[c].ans.status < 400))
       => /\ call'[c].err # NoErr
          /\ call'[c].result = NilCreds
          /\ prov'[p].cache = call[c].snap
          /\ prov'[p].writer = NoCaller
    /\ (RetrieveReturns(c) /\ call'[c].err # NoErr) => call'[c].nLogin = 1
    /\ (/\ call[c].pc = "dcheck"
        /\ call'[c] # call[c]
        /\ stats[p].failedLogin
        /\ prov[p].cache = NilCreds)
       => /\ call'[c].pc = "logging"
          /\ stats'[p].loginCalls = stats[p].loginCalls + 1

\* C5: a failed login exchange makes Retrieve return the error with no
\* credential, leaves the cache as it was when the call took the exclusive
\* lock and releases the lock; the provider remembers no failure: an error
\* is only ever returned by a call that ran its own login exchange, and the
\* re-check of a later call on the still empty cache starts a new exchange.
C5_FailedLoginNotCached == [][\A c \in Callers : C5_Step(c)]_vars

\* One call returned the error of its failed login; a later call on the
\* same provider is inside a new login exchange.
C5_Witness ==
    \E a, b \in Callers :
        /\ call[a].pc = "done" /\ call[a].via = "loginFailed"
        /\ call[a].err # NoErr
        /\ call[b].pc = "logging" /\ call[b].tgt = call[a].tgt
        /\ stats[call[a].tgt].failedLogin

\* What the return of a Retrieve with a cancelled context leaves behind.
C6_Step(c) ==
    LET p == call[c].tgt IN
    (call[c].ctx # "live" /\ RetrieveReturns(c))
    => /\ prov'[p].writer = NoCaller
       /\ c \notin prov'[p].readers
       /\ call'[c].err # NoErr => prov'[p].cache = call[c].snap
       /\ call'[c].err = NoErr => prov'[p].cache = call'[c].result

\* C6: a Retrieve whose context is cancelled while its login or refresh
\* exchange runs returns in the end and holds no lock then; on its return
\* the exclusive lock is free and the cache holds either what it held when
\* the call took the lock (error) or the complete credential the call
\* returns, so a later call can lock the provider and run a new exchange.
C6_CancelledRetrieveReturns ==
    /\ [][\A c \in Callers : C6_Step(c)]_vars
    /\ \A c \in Callers :
          (InExchange(c) /\ call[c].ctx # "live")
              ~> (/\ call[c].pc \in {"loginfin", "done"}
                  /\ \A p \in Providers :
                        prov[p].writer # c /\ c \notin prov[p].readers)

\* A cancelled call has returned its error; a later call with a live
\* context holds the lock of the same provider and runs a login exchange.
C6_Witness ==
    \E a, b \in Callers :
        /\ call[a].pc = "done" /\ call[a].ctx # "live"
        /\ call[a].err # NoErr
        /\ call[b].pc = "logging" /\ call[b].ctx = "live"
        /\ call[b].tgt = call[a].tgt
        /\ prov[call[b].tgt].writer = b

\* The bearer token of a facade call against the token of the store.
C7_Step(c) ==
    (/\ call'[c].op = "Facade"
     /\ call'[c] # call[c]
     /\ cfg.AuthorizationToken # EmptyToken
     /\ credentialsProvider # NilProvider)
    => call'[c].sent = prov[credentialsProvider].cache.AccessToken

\* C7: once a Client.Login has succeeded, the request of every facade call
\* carries the access token that the client's credential store holds at
\* that moment.
C7_FacadeCarriesCurrentToken == [][\A c \in Callers : C7_Step(c)]_vars

\* The credential of a successful return against the clock.
C8_Step(c) ==
    (RetrieveReturns(c) /\ call'[c].err = NoErr)
    => ~Expired(call'[c].result, now')

\* C8: the credential a successful Retrieve returns is not Expired at the
\* moment of the return.
C8_ReturnedCredentialUsable == [][\A c \in Callers : C8_Step(c)]_vars

\* What a Retrieve of the static provider does.
C9_Step(c) ==
    (call'[c].op = "StaticRetrieve" /\ call'[c] # call[c])
    => /\ call'[c].pc = "done"
       /\ call'[c].err = NoErr
       /\ call'[c].result.AccessToken = StaticToken
       /\ call'[c].result = staticProvider.credentials
       /\ call'[c].nLogin = 0 /\ call'[c].nRefresh = 0
       /\ stats' = stats
       /\ issued' = issued
       /\ staticProvider' = staticProvider

\* C9: every Retrieve of the static provider returns the externally
\* supplied token with a nil error, at any time, and runs no exchange.
C9_StaticNeverExchanges == [][\A c \in Callers : C9_Step(c)]_vars

\* The static token was handed out after its ExpiresAt had passed.
C9_Witness ==
    \E c \in Callers :
        /\ call[c].op = "StaticRetrieve" /\ call[c].pc = "done"
        /\ call[c].result.AccessToken = StaticToken
        /\ now > call[c].result.ExpiresAt

\* HTTP 401 with body {"code":401,"error":"invalid client credentials"}
Rejected401 ==
    Outcome("ok", 401, "envelope", 401, "invalid client credentials", 0, FALSE, 0)

\* The error says that authentication failed and its chain holds the API
\* error with code 401 and the text of the envelope.
Surfaces401(e) ==
    /\ Len(e) > 0
    /\ e[1].fmt = "failed to authenticate with provided credentials"
    /\ \E i \in 1..Len(e) :
          /\ e[i].type = "*http.APIError"
          /\ e[i].Code = 401
          /\ e[i].d = 401
          /\ e[i].s = "invalid client credentials"

\* What a Client.Login whose exchange is rejected with 401 does.
C10_Step(c) ==
    LET p == call[c].tgt IN
    /\ (/\ call[c].op = "Login"
        /\ call[c].pc = "logging"
        /\ RetrieveReturns(c)
        /\ call'[c].ans = Rejected401
        /\ call[c].snap = NilCreds)
       => /\ prov'[p].cache = NilCreds
          /\ call'[c].err # NoErr
    /\ (/\ call[c].pc = "loginfin"
        /\ call'[c].pc = "done"
        /\ call[c].via = "loginFailed"
        /\ call[c].ans = Rejected401)
       => /\ Surfaces401(call'[c].err)
          /\ cfg' = cfg
          /\ abdmKey' = abdmKey
          /\ (stats[p].loginCalls = 1 /\ stats[p].refreshCalls = 0)
                => prov'[p].cache = NilCreds

\* C10: when the login exchange of Client.Login is answered with 401 and
\* the envelope "invalid client credentials", Login returns an
\* authentication error that surfaces code 401 and that text, sets no token,
\* and the cache that was empty when the call locked the store is empty
\* when Retrieve returns (and when Login returns, if that login was the only
\* exchange of the store).
C10_RejectedLoginSurfaces401 == [][\A c \in Callers : C10_Step(c)]_vars

\* A Client.Login has returned the 401 error and the cache is empty.
C10_Witness ==
    \E c \in Callers :
        /\ call[c].op = "Login" /\ call[c].pc = "done"
        /\ call[c].ans = Rejected401
        /\ Surfaces401(call[c].err)
        /\ prov[call[c].tgt].cache = NilCreds

\* The step is Client.Login called on a client without client ID or without
\* client secret.
C11_Step(c) ==
    (/\ call[c].pc \in {"idle", "done"}
     /\ call'[c].op = "Login"
     /\ calls' = calls + 1
     /\ (cfg.ClientID = "" \/ cfg.ClientSecret = ""))
    => /\ call'[c].pc = "done"
       /\ call'[c].result = NilCreds
       /\ Len(call'[c].err) = 1
       /\ call'[c].err[1].fmt =
             IF cfg.ClientID = ""
             THEN "client ID is required for authentication"
             ELSE "client secret is required for authentication"
       /\ call'[c].nLogin = 0 /\ call'[c].nRefresh = 0
       /\ issued' = issued /\ stats' = stats /\ prov' = prov
       /\ nProv' = nProv
       /\ credentialsProvider' = credentialsProvider
       /\ cfg' = cfg
       /\ abdmKey' = abdmKey /\ authKey' = authKey

\* C11: Client.Login on a client whose client ID or client secret is empty
\* returns the configuration error at once, starts no exchange and leaves
\* the credentials provider, the authorization token and the ABDM client as
\* they were.
C11_ConfigErrorBeforeNetwork == [][\A c \in Callers : C11_Step(c)]_vars

\* A Login has returned the "client secret is required" error on a client
\* that was built with a credentials provider, and the provider is still
\* installed.
C11_Witness ==
    \E c \in Callers :
        /\ call[c].op = "Login" /\ call[c].pc = "done"
        /\ cfg.ClientID # "" /\ cfg.ClientSecret = ""
        /\ Len(call[c].err) = 1
        /\ call[c].err[1].fmt = "client secret is required for authentication"
        /\ credentialsProvider # NilProvider

NonIdempotent == {"POST", "PATCH"}

\* C13: with the retry middleware installed, a request with a non-idempotent
\* method (POST, PATCH) is handed to the underlying round tripper at most
\* once per Do call.
C13_NonIdempotentSentOnce ==
    (tr.method \in NonIdempotent /\ InChain("retry", tr.applied))
        => tr.sends <= 1

\* C14: the error Client.Do returns for a response with status 429 or 500
\* is retryable for IsRetryableError, the one for 400 or 404 is not.
C14_StatusClassifiedRetryable ==
    (tr.pc = "returned" /\ tr.got.net = "ok" /\ tr.got.status >= 400)
        => (IsRetryableError(tr.err) <=> tr.got.status \in {429, 500})

\* C15: RetryWithBackoff invokes the operation at least once and at most
\* maxRetries+1 times, stops after the first success and returns nil, and
\* returns the error of the last attempt when every attempt failed.
C15_AttemptsAndLastError ==
    /\ rw.succeeded > 0 => rw.invoked = rw.succeeded
    /\ rw.pc = "returned" =>
          /\ rw.invoked >= 1
          /\ rw.invoked <= rw.maxRetries + 1
          /\ rw.succeeded > 0 => rw.err = NilError
          /\ (rw.succeeded = 0 /\ rw.invoked = rw.maxRetries + 1)
                => rw.err = FnError(rw.invoked)

\* The step of a select that the cancellation woke while it was blocked.
C16_Step ==
    (rw.pc = "wait" /\ rw.woken = "done" /\ rw.cancelledAt = "wait")
        => /\ rw'.pc = "returned"
           /\ rw'.err = CtxError
           /\ rw'.err # rw.lastErr
           /\ rw'.invoked = rw.invokedAtCancel

\* C16: when the context is cancelled while the select between two attempts
\* is blocked (the delay has not elapsed), the call returns ctx.Err(), not
\* the operation's last error, without invoking the operation again.
C16_CancelledWaitReturnsCtxError == [][C16_Step]_vars

C16_Witness ==
    /\ rw.pc = "returned"
    /\ rw.cancelledAt = "wait"
    /\ rw.err = CtxError
    /\ rw.lastErr = FnError(rw.invoked)
    /\ rw.invoked >= 1
    /\ rw.invoked <= rw.maxRetries

\* The error carries the HTTP status: in the Code field of an APIError or
\* printed into the text of the fallback error.
CarriesStatus(e, status) ==
    \E i \in 1..Len(e) :
        \/ e[i].type = "*http.APIError" /\ e[i].Code = status
        \/ e[i].fmt = "HTTP %d: %s" /\ e[i].d = status

\* The text of the response body is printed into the error.
ExposesBody(e, body) ==
    \E i \in 1..Len(e) : e[i].fmt = "HTTP %d: %s" /\ e[i].s = body

\* C17: for a response with status >= 400 Client.Do returns a nil response
\* and a non-nil error that carries the status, and that exposes the body
\* text when the body is not the error envelope; for a status < 400 it
\* returns the response with the server's status and body and a nil error.
C17_DoMapsStatus ==
    (tr.pc = "returned" /\ tr.got.net = "ok") =>
        IF tr.got.status >= 400
        THEN /\ tr.resp = IdleTransport.resp
             /\ tr.err # NoErr
             /\ CarriesStatus(tr.err, tr.got.status)
             /\ tr.got.body # "envelope" => ExposesBody(tr.err, tr.got.body)
        ELSE /\ tr.resp = [StatusCode |-> tr.got.status, Body |-> tr.got.body]
             /\ tr.err = NoErr

\* The kinds of error: an *APIError, and the wrapped round trip failure.
IsAPIError(e) == \E i \in 1..Len(e) : e[i].type = "*http.APIError"

IsTransportError(e) == \E i \in 1..Len(e) : e[i].fmt = "request failed"

\* C18: a network failure never yields an error of the API-error kind, and
\* every response with status >= 400, whatever its body, yields an error of
\* the API-error kind and never one of the transport-error kind.
C18_ErrorKindsDistinct ==
    tr.pc = "returned" =>
        /\ tr.got.net = "fail" => ~IsAPIError(tr.err)
        /\ (tr.got.net = "ok" /\ tr.got.status >= 400)
              => (IsAPIError(tr.err) /\ ~IsTransportError(tr.err))

\* The request of the exchange that ends in this step, as Client.Do of the
\* http client of Client.Auth sent it.
C19_Step(c) ==
    (InExchange(c) /\ call'[c].pc # call[c].pc)
        => ~Do(authKey, call'[c].ans).authHeader

\* C19: the login and refresh exchanges go out without a bearer
\* Authorization header, before and after a successful Client.Login.
C19_ExchangesCarryNoAuthorization == [][\A c \in Callers : C19_Step(c)]_vars

\* C20: a middleware registered with the abdm client's AddMiddleware is
\* applied to every request a facade of that client issues afterwards.
C20_FacadeAppliesRegistered ==
    (tr.pc = "roundtrip" /\ tr.via = "facade")
        => \A i \in 1..Len(tr.sdkMw) : InChain(tr.sdkMw[i], tr.applied)

\* C21: the built configuration holds, for every field, the value of the
\* last option that set it, an explicit zero or empty value included, and
\* the default only when no option set the field.
C21_LastWriteWins ==
    build.pc = "built" =>
        \A f \in Fields :
            build.cfg[f] = IF build.last[f] = <<>>
                           THEN DefaultsOf(build.ctor)[f]
                           ELSE build.last[f][1]

\* Two goroutines are about to access the same field, one of them writes
\* it, and no mutex is held by both.
DataRace(c, d) ==
    /\ c # d
    /\ Pending(c).kind \in {"read", "write"}
    /\ Pending(d).kind \in {"read", "write"}
    /\ Pending(c).field = Pending(d).field
    /\ Pending(c).kind = "write" \/ Pending(d).kind = "write"
    /\ Pending(c).lock = "none" \/ Pending(c).lock # Pending(d).lock

\* C22: under every interleaving of concurrent Login, SetCredentialsProvider,
\* GetCredentials and facade calls on one Client, no data race on
\* credentialsProvider, ABDM or the config's AuthorizationToken is reachable.
C22_NoDataRace == \A c, d \in Callers : ~DataRace(c, d)

\* C23: no public operation panics; a profile facade called with a nil
\* request pointer ends with a result or an explicit error.
C23_NoPanic == fc.pc # "panicked"

\* The double check of goroutine c decides between refresh and login.
C24_Step(c) ==
    call[c].pc = "dcheck" =>
        LET cached == prov[call[c].tgt].cache
            refreshable == /\ cached # NilCreds
                           /\ cached.RefreshToken # EmptyToken
                           /\ now < cached.RefreshExpiresAt IN
        /\ call'[c].pc = "refreshing" => refreshable
        /\ call'[c].pc = "logging" =>
              /\ ~refreshable
              /\ call'[c].nRefresh = call[c].nRefresh
              /\ stats'[call[c].tgt].refreshCalls = stats[call[c].tgt].refreshCalls

\* C24: Retrieve issues a refresh exchange only when the cached credential
\* exists, has a non-empty refresh token and now < RefreshExpiresAt; with an
\* empty cache, an empty or an expired refresh token it goes straight to
\* the login exchange.
C24_RefreshOnlyWhenRefreshable == [][\A c \in Callers : C24_Step(c)]_vars

C24_Witness ==
    \E c \in Callers :
        /\ call[c].pc = "logging"
        /\ call[c].nRefresh = 0
        /\ prov[call[c].tgt].cache # NilCreds
        /\ prov[call[c].tgt].cache.RefreshToken # EmptyToken
        /\ now >= prov[call[c].tgt].cache.RefreshExpiresAt

\* A step that changes the cache of provider p: the goroutine c that holds
\* the exclusive lock stores a credential whose fields all come from the
\* response of the exchange that ends in this step.
C25_Replaced(p) ==
    \E c \in Callers :
        /\ call[c].tgt = p
        /\ InExchange(c)
        /\ prov[p].writer = c
        /\ prov[p].readers = {}
        /\ LET o == call'[c].ans
               new == prov'[p].cache IN
           /\ new.AccessToken = issued'
           /\ new.RefreshToken = IF o.hasRefresh THEN issued' ELSE EmptyToken
           /\ new.ExpiresAt = now + o.ExpiresIn
           /\ new.RefreshExpiresAt = now + o.RefreshExpiresIn
           /\ call'[c].result = new

\* A credential that a finished Retrieve returned stays as it was returned.
C25_PublishedKept(d) ==
    (call[d].result # NilCreds /\ call'[d].pc = call[d].pc)
        => call'[d].result = call[d].result

\* C25: the cached credential of a store is replaced only as a whole and
\* only while the exclusive lock is held, and a credential published through
\* Retrieve is never changed afterwards.
C25_CacheReplacedWholeUnderLock ==
    [][/\ \A p \in Providers :
            prov'[p].cache # prov[p].cache => C25_Replaced(p)
       /\ \A d \in Callers : C25_PublishedKept(d)]_vars

\* A goroutine holds the old credential while the store already caches the
\* one that replaced it.
C25_Witness ==
    \E c, d \in Callers :
        /\ c # d
        /\ call[c].tgt = call[d].tgt
        /\ call[c].result # NilCreds
        /\ call[d].result # NilCreds
        /\ call[d].result = prov[call[d].tgt].cache
        /\ call[c].result # call[d].result

\* One answer of the underlying round tripper to a request that runs
\* through the retry middleware.
C26_Step ==
    (tr.pc = "roundtrip" /\ InChain("retry", tr.applied)) =>
        LET o == tr'.last IN
        /\ (/\ o.net = "ok"
            /\ o.status >= 500 \/ o.status = 429
            /\ tr.attempt < tr.maxRetries)
              => (tr'.pc = "roundtrip" /\ tr'.attempt = tr.attempt + 1)
        /\ (o.net = "ok" /\ o.status >= 400 /\ o.status < 500 /\ o.status # 429)
              => tr'.pc = "returned"
        /\ tr'.sends <= tr.maxRetries + 1

\* C26: the retry middleware re-attempts a request whose response status is
\* 5xx or 429, up to maxRetries additional attempts, and does not re-attempt
\* a response with another 4xx status.
C26_RetriesServerErrorsAnd429 == [][C26_Step]_vars

\* C27: the middlewares registered on the http client compose in
\* registration order: the one registered first is the outermost, so the
\* request passes through it first and reaches the transport last.
C27_ComposeInRegistrationOrder ==
    (tr.pc = "roundtrip" /\ tr.via = "http") => tr.applied = tr.httpMw

\* C28: retryTransport.RoundTrip never returns a nil response together
\* with a nil error, whatever the attempts' outcomes were.
C28_NeverNilResponseNilError ==
    (tr.pc = "returned" /\ InChain("retry", tr.applied)) => tr.got # NilResponse

\* Client.Login of goroutine c returns the error of a failed exchange:
\* the provider object this call created (call[c].tgt) is not the one that
\* was configured before the call, so it must not be the configured one
\* now; the token and the ABDM client are written by this step or not at all.
C29_Step(c) ==
    (/\ call[c].op = "Login"
     /\ call[c].pc = "loginfin"
     /\ call[c].err # NoErr
     /\ call'[c].pc = "done")
        => /\ credentialsProvider' # call[c].tgt
           /\ cfg'.AuthorizationToken = cfg.AuthorizationToken
           /\ abdmKey' = abdmKey

\* C29: a Client.Login that fails in the login exchange leaves the
\* configured credentials provider, the config's authorization token and
\* the ABDM client as they were before the call.
C29_FailedLoginLeavesClient == [][\A c \in Callers : C29_Step(c)]_vars

\* The goroutines whose call of the wrapped provider is in flight.
Calling(x) == {c \in Callers : x.at[c].pc = "calling"}

\* One step of goroutine c inside CredentialsCache.Retrieve.
C30_Step(c) ==
    /\ (cc.at[c].pc # "calling" /\ cc'.at[c].pc = "calling")
          => (cc.cache = NilCreds \/ now > cc.cache.ExpiresAt - SafetyMargin)
    /\ (cc.at[c].pc = "calling" /\ cc'.at[c].err # NilError)
          => (cc'.cache = cc.cache /\ cc'.at[c].result = NilCreds)

\* C30: CredentialsCache.Retrieve calls the wrapped provider only when its
\* cached credential is absent or Expired, never has more than one call of
\* the wrapped provider in flight, and leaves its cache unchanged when the
\* wrapped provider returns an error.
C30_CacheCallsProviderWhenNeeded ==
    [][/\ \A c \in Callers : C30_Step(c)
       /\ Cardinality(Calling(cc')) <= 1]_vars

\* The wrapped provider failed while an expired credential was cached, and
\* another goroutine is waiting for the exclusive lock meanwhile.
C30_Witness ==
    \E c, d \in Callers :
        /\ cc.at[c].pc = "done"
        /\ cc.at[c].err # NilError
        /\ cc.cache # NilCreds
        /\ cc.at[c].snap = cc.cache
        /\ cc.at[d].pc \in {"lock", "dcheck", "calling"}

====
